---- MODULE Spec2Model ----
(***************************************************************************)
(* Gemini Live session / transcript persistence (models/gemini_live.py)   *)
(* and its HTTP router (routers/gemini.py).                                *)
(*                                                                         *)
(* The relational store is two tables: gemini_session, keyed by id, and   *)
(* gemini_transcript, kept here as the sequence of its rows in insertion  *)
(* order.  Every table accessor is an operator computing the new table    *)
(* and the returned value; every action is one call of an accessor or one *)
(* HTTP request served by the router.                                      *)
(***************************************************************************)
EXTENDS Integers, Sequences, FiniteSets, TLC

(* ---- bounds of the model ---- *)
(* the calls that change the store, and clock ticks, of a behaviour of the *)
(* persistence service                                                     *)
MaxSteps == 4
(* the requests that change the store, and clock ticks, of a behaviour of  *)
(* the router                                                              *)
MaxHttpSteps == 2
(* the calls that change the store, and clock ticks, of a behaviour that   *)
(* mixes every writing call                                                *)
MaxCountSteps == 3
(* the longest transcript sequence handed to the formatters *)
MaxRows == 2
(* the requests served at the same time *)
NWorkers == 2

(* ---- input domains ---- *)
None == <<>>
Some(v) == <<v>>
Users == {"u1", "u2"}
Models == {Some("gemini-live")}
Voices == {None}
Titles == {None, Some("t")}
Summaries == {None, Some("sum")}
Statuses == {None, Some("ended"), Some("paused")}
Roles == {"user", "assistant"}
UpdateForms ==
    {<<None, None, None>>, <<Some("t"), None, None>>, <<None, Some("sum"), None>>,
     <<None, None, Some("ended")>>, <<Some("t"), Some("sum"), Some("paused")>>}
Contents == {"hi"}
(* what the formatters are handed: roles beyond the two the client sends,  *)
(* contents and summaries that may be the empty string                     *)
RoleStrings == Roles \cup {"system"}
TextArgs == Contents \cup {""}
SummaryArgs == {None, Some(""), Some("sum")}
(* the supported voices: the list the router imports from                  *)
(* open_webui.config, two names standing for its entries                   *)
GEMINI_LIVE_VOICES == <<"voice-a", "voice-b">>
(* GeminiConfigForm: api_keys, and live_voice values in and out of the list *)
KeyLists == {<<>>, <<"k1">>, <<"k1", "k2">>}
VoiceArgs == {GEMINI_LIVE_VOICES[i] : i \in DOMAIN GEMINI_LIVE_VOICES}
                 \cup {"", "voice-x"}

VARIABLES
    sessions,     \* gemini_session table: id -> row
    transcripts,  \* gemini_transcript table: rows in insertion order
    now,          \* int(time.time())
    nextSid,      \* number of session ids drawn so far (uuid4 never repeats)
    nextTid,      \* number of transcript ids drawn so far
    appended,     \* id -> number of add_transcript calls completed on the
                  \* session since create_session, or -1 once any other
                  \* writing operation touched it
    steps,        \* store-changing calls and clock ticks the behaviour has left
    foreign_keys, \* whether the database engine enforces foreign keys
    workers,      \* worker -> the POST /transcript request it is serving and
                  \* how far it got
    call,         \* the last operation invoked, with its arguments
    ret,          \* what it returned
    GEMINI_API_KEYS,     \* GEMINI_API_KEYS.value
    GEMINI_LIVE_ENABLED, \* GEMINI_LIVE_ENABLED.value
    GEMINI_LIVE_VOICE    \* GEMINI_LIVE_VOICE.value

vars == <<sessions, transcripts, now, nextSid, nextTid, appended, steps,
          foreign_keys, workers, call, ret,
          GEMINI_API_KEYS, GEMINI_LIVE_ENABLED, GEMINI_LIVE_VOICE>>

(* the stored configuration values *)
gemini_config == <<GEMINI_API_KEYS, GEMINI_LIVE_ENABLED, GEMINI_LIVE_VOICE>>

Workers == 1..NWorkers
Idle == [pc |-> "idle", session_id |-> "", message_count |-> 0]

store == <<sessions, transcripts>>

(* str(uuid.uuid4()): the n-th identifier drawn for the rows of a table; *)
(* no two draws give the same identifier                                 *)
uuid4(table, n) == table \o ToString(n)

(* identifiers a caller may name: every session id generated so far (its  *)
(* session stored or deleted), and a string that is no generated id       *)
IdArgs == {uuid4("s", n) : n \in 1..nextSid} \cup {"active"}

Min(a, b) == IF a < b THEN a ELSE b

(* every order in which an engine may return the rows R under            *)
(* ORDER BY column ASC / DESC: SQL fixes the order of rows only as far as    *)
(* their keys differ, rows with equal keys come in any order              *)
order_by(R, column, desc) ==
    {q \in [1..Cardinality(R) -> R] :
        /\ \A i, j \in 1..Cardinality(R) : i # j => q[i] # q[j]
        /\ \A i, j \in 1..Cardinality(R) : i < j =>
               IF desc THEN q[i][column] >= q[j][column]
                       ELSE q[i][column] <= q[j][column]}

(* .first() *)
first(q) == IF Len(q) = 0 THEN None ELSE Some(q[1])

(* .offset(o).limit(l) *)
offset_limit(q, o, l) == SubSeq(q, o + 1, Min(Len(q), o + l))

(* list.reverse() *)
reverse(q) == [i \in 1..Len(q) |-> q[Len(q) + 1 - i]]

(***************************************************************************)
(* GeminiSessionsTable                                                     *)
(***************************************************************************)

GeminiSessionModel(id, user_id, model, voice, t) ==
    [id |-> id, user_id |-> user_id, title |-> None, summary |-> None,
     status |-> "active", model |-> model, voice |-> voice,
     message_count |-> 0, last_summary_at |-> None,
     updated_at |-> t, created_at |-> t]

(* create_session: the table after db.add / db.commit *)
create_session(S, id, user_id, model, voice, t) ==
    [i \in DOMAIN S \cup {id} |->
        IF i = id THEN GeminiSessionModel(id, user_id, model, voice, t) ELSE S[i]]

(* get_session_by_id: db.get(GeminiSession, id) *)
get_session_by_id(S, id) ==
    IF id \in DOMAIN S THEN Some(S[id]) ELSE None

(* a mutant of get_active_session_by_user_id: the status filter is lost *)
get_active_session_any_status(S, user_id) ==
    LET rows == {S[i] : i \in {j \in DOMAIN S : S[j].user_id = user_id}}
    IN  {first(q) : q \in order_by(rows, "updated_at", TRUE)}

(* get_active_session_by_user_id: filter_by(user_id, status="active")     *)
(* .order_by(updated_at.desc()).first(): the set of possible results      *)
get_active_session_by_user_id(S, user_id) ==
    LET rows == {S[i] : i \in {j \in DOMAIN S :
                    S[j].user_id = user_id /\ S[j].status = "active"}}
    IN  {first(q) : q \in order_by(rows, "updated_at", TRUE)}

(* get_sessions_by_user_id: the set of possible results *)
get_sessions_by_user_id(S, user_id, limit, offset) ==
    LET rows == {S[i] : i \in {j \in DOMAIN S : S[j].user_id = user_id}}
    IN  {offset_limit(q, offset, limit) :
            q \in order_by(rows, "updated_at", TRUE)}

(* a mutant of update_session: the row is written back with its counter *)
(* at the column default                                                *)
update_session_resets_count(S, id, user_id, title, summary, status, t) ==
    IF id \notin DOMAIN S \/ S[id].user_id # user_id
    THEN [sessions |-> S, ret |-> None]
    ELSE LET s0 == S[id]
             s1 == IF title # None THEN [s0 EXCEPT !.title = title] ELSE s0
             s2 == IF summary # None
                   THEN [s1 EXCEPT !.summary = summary, !.last_summary_at = Some(t)]
                   ELSE s1
             s3 == IF status # None THEN [s2 EXCEPT !.status = status[1]] ELSE s2
             s4 == [s3 EXCEPT !.updated_at = t, !.message_count = 0]
         IN  [sessions |-> [S EXCEPT ![id] = s4], ret |-> Some(s4)]

(* a mutant of update_session: last_summary_at is stamped on every update *)
update_session_always_stamps(S, id, user_id, title, summary, status, t) ==
    IF id \notin DOMAIN S \/ S[id].user_id # user_id
    THEN [sessions |-> S, ret |-> None]
    ELSE LET s0 == S[id]
             s1 == IF title # None THEN [s0 EXCEPT !.title = title] ELSE s0
             s2 == IF summary # None
                   THEN [s1 EXCEPT !.summary = summary, !.last_summary_at = Some(t)]
                   ELSE [s1 EXCEPT !.last_summary_at = Some(t)]
             s3 == IF status # None THEN [s2 EXCEPT !.status = status[1]] ELSE s2
             s4 == [s3 EXCEPT !.updated_at = t]
         IN  [sessions |-> [S EXCEPT ![id] = s4], ret |-> Some(s4)]

(* a mutant of update_session: the owner is not compared *)
update_session_no_owner_check(S, id, user_id, title, summary, status, t) ==
    IF id \notin DOMAIN S
    THEN [sessions |-> S, ret |-> None]
    ELSE LET s0 == S[id]
             s1 == IF title # None THEN [s0 EXCEPT !.title = title] ELSE s0
             s2 == IF summary # None
                   THEN [s1 EXCEPT !.summary = summary, !.last_summary_at = Some(t)]
                   ELSE s1
             s3 == IF status # None THEN [s2 EXCEPT !.status = status[1]] ELSE s2
             s4 == [s3 EXCEPT !.updated_at = t]
         IN  [sessions |-> [S EXCEPT ![id] = s4], ret |-> Some(s4)]

(* update_session: [sessions |-> table afterwards, ret |-> returned value] *)
update_session(S, id, user_id, title, summary, status, t) ==
    IF id \notin DOMAIN S \/ S[id].user_id # user_id
    THEN [sessions |-> S, ret |-> None]
    ELSE LET s0 == S[id]
             s1 == IF title # None THEN [s0 EXCEPT !.title = title] ELSE s0
             s2 == IF summary # None
                   THEN [s1 EXCEPT !.summary = summary, !.last_summary_at = Some(t)]
                   ELSE s1
             s3 == IF status # None THEN [s2 EXCEPT !.status = status[1]] ELSE s2
             s4 == [s3 EXCEPT !.updated_at = t]
         IN  [sessions |-> [S EXCEPT ![id] = s4], ret |-> Some(s4)]

(* increment_message_count, its read: session = db.get(GeminiSession, id) *)
increment_read(S, id) == get_session_by_id(S, id)

(* increment_message_count, its write: message_count = (value read) + 1,   *)
(* updated_at = now, db.commit().  The UPDATE carries the value computed   *)
(* from the row as it was read; when the row is gone by now the commit     *)
(* raises and the except clause returns None.                              *)
increment_write(S, id, read_count, t) ==
    IF id \notin DOMAIN S
    THEN [sessions |-> S, ret |-> None]
    ELSE LET s1 == [S[id] EXCEPT !.message_count = read_count + 1,
                                 !.updated_at = t]
         IN  [sessions |-> [S EXCEPT ![id] = s1], ret |-> Some(s1)]

(* increment_message_count, run as one uninterrupted unit *)
increment_message_count(S, id, t) ==
    LET session == increment_read(S, id)
    IN  IF session = None
        THEN [sessions |-> S, ret |-> None]
        ELSE increment_write(S, id, session[1].message_count, t)

(* rows of a transcript table that stay after                              *)
(* db.query(GeminiTranscript).filter_by(session_id=id).delete()            *)
delete_rows(T, session_id) == SelectSeq(T, LAMBDA r : r.session_id # session_id)

(* a mutant of delete_session: the transcripts are left behind *)
delete_session_no_cascade(S, T, id, user_id) ==
    IF id \notin DOMAIN S \/ S[id].user_id # user_id
    THEN [sessions |-> S, transcripts |-> T, ret |-> FALSE]
    ELSE [sessions |-> [i \in DOMAIN S \ {id} |-> S[i]],
          transcripts |-> T,
          ret |-> TRUE]

(* a mutant of delete_session: the owner is not compared *)
delete_session_no_owner_check(S, T, id, user_id) ==
    IF id \notin DOMAIN S
    THEN [sessions |-> S, transcripts |-> T, ret |-> FALSE]
    ELSE [sessions |-> [i \in DOMAIN S \ {id} |-> S[i]],
          transcripts |-> delete_rows(T, id),
          ret |-> TRUE]

(* delete_session: [sessions, transcripts, ret] *)
delete_session(S, T, id, user_id) ==
    IF id \notin DOMAIN S \/ S[id].user_id # user_id
    THEN [sessions |-> S, transcripts |-> T, ret |-> FALSE]
    ELSE [sessions |-> [i \in DOMAIN S \ {id} |-> S[i]],
          transcripts |-> delete_rows(T, id),
          ret |-> TRUE]

(***************************************************************************)
(* GeminiTranscriptsTable                                                  *)
(***************************************************************************)

GeminiTranscriptModel(id, session_id, role, content, audio_duration, t) ==
    [id |-> id, session_id |-> session_id, role |-> role, content |-> content,
     audio_duration |-> audio_duration, timestamp |-> t]

(* the insert of add_transcript: db.add(result); db.commit().  The column *)
(* session_id is declared ForeignKey("gemini_session.id"): an engine that *)
(* enforces it (fk) refuses a row whose session is not stored, and the    *)
(* commit raises; an engine that does not stores the row.                 *)
insert_transcript(S, T, row, fk) ==
    IF fk /\ row.session_id \notin DOMAIN S
    THEN [ok |-> FALSE, transcripts |-> T]
    ELSE [ok |-> TRUE, transcripts |-> Append(T, row)]

(* a mutant of add_transcript: the session's counter is not incremented *)
add_transcript_no_increment(S, T, id, session_id, role, content, audio_duration, t, fk) ==
    LET row == GeminiTranscriptModel(id, session_id, role, content, audio_duration, t)
        ins == insert_transcript(S, T, row, fk)
    IN  IF ~ins.ok
        THEN [sessions |-> S, transcripts |-> T, ret |-> "IntegrityError"]
        ELSE [sessions |-> S, transcripts |-> ins.transcripts, ret |-> Some(row)]

(* add_transcript run as one uninterrupted unit: the insert, then          *)
(* GeminiSessions.increment_message_count(session_id, db)                  *)
add_transcript(S, T, id, session_id, role, content, audio_duration, t, fk) ==
    LET row == GeminiTranscriptModel(id, session_id, role, content, audio_duration, t)
        ins == insert_transcript(S, T, row, fk)
    IN  IF ~ins.ok
        THEN [sessions |-> S, transcripts |-> T, ret |-> "IntegrityError"]
        ELSE [sessions |-> increment_message_count(S, session_id, t).sessions,
              transcripts |-> ins.transcripts,
              ret |-> Some(row)]

(* rows selected by filter_by(session_id=...) *)
filter_by_session(T, session_id) ==
    {T[i] : i \in {j \in DOMAIN T : T[j].session_id = session_id}}

(* get_transcripts_by_session_id: the set of possible results *)
get_transcripts_by_session_id(T, session_id, limit, offset) ==
    {offset_limit(q, offset, limit) :
        q \in order_by(filter_by_session(T, session_id), "timestamp", FALSE)}

(* get_recent_transcripts: the set of possible results *)
get_recent_transcripts(T, session_id, limit) ==
    {reverse(offset_limit(q, 0, limit)) :
        q \in order_by(filter_by_session(T, session_id), "timestamp", TRUE)}

(* get_transcript_count *)
get_transcript_count(T, session_id) == Cardinality(filter_by_session(T, session_id))

(* get_transcripts_since: the set of possible results *)
get_transcripts_since(T, session_id, since_timestamp) ==
    order_by({r \in filter_by_session(T, session_id) : r.timestamp > since_timestamp},
             "timestamp", FALSE)

(* "\n".join(lines) *)
RECURSIVE join(_, _)
join(lines, sep) ==
    IF Len(lines) = 0 THEN ""
    ELSE IF Len(lines) = 1 THEN lines[1]
    ELSE lines[1] \o sep \o join(Tail(lines), sep)

(* a mutant of format_transcript_for_context: the label is chosen by       *)
(* comparing the role with "assistant"                                     *)
format_transcript_assistant_else_user(rows) ==
    join([i \in 1..Len(rows) |->
             "[" \o (IF rows[i].role = "assistant" THEN "GEMINI" ELSE "USER") \o "]: "
                 \o rows[i].content],
         "\n")

(* format_transcript_for_context *)
format_transcript_for_context(rows) ==
    join([i \in 1..Len(rows) |->
             "[" \o (IF rows[i].role = "user" THEN "USER" ELSE "GEMINI") \o "]: "
                 \o rows[i].content],
         "\n")

(* delete_transcripts_by_session_id *)
delete_transcripts_by_session_id(T, session_id) ==
    [transcripts |-> delete_rows(T, session_id), ret |-> TRUE]

(***************************************************************************)
(* The router (routers/gemini.py): session, transcript and context routes  *)
(***************************************************************************)

lit(name) == <<"lit", name>>
param(name) == <<"param", name>>

(* the routes in the order their decorators register them *)
routes ==
    << [method |-> "POST",   path |-> <<lit("session")>>,
        endpoint |-> "create_session"],
       [method |-> "GET",    path |-> <<lit("session"), param("session_id")>>,
        endpoint |-> "get_session"],
       [method |-> "GET",    path |-> <<lit("sessions")>>,
        endpoint |-> "get_user_sessions"],
       [method |-> "GET",    path |-> <<lit("session"), lit("active")>>,
        endpoint |-> "get_active_session"],
       [method |-> "PUT",    path |-> <<lit("session"), param("session_id")>>,
        endpoint |-> "update_session"],
       [method |-> "DELETE", path |-> <<lit("session"), param("session_id")>>,
        endpoint |-> "delete_session"],
       [method |-> "POST",   path |-> <<lit("transcript")>>,
        endpoint |-> "add_transcript"],
       [method |-> "GET",    path |-> <<lit("transcripts"), param("session_id")>>,
        endpoint |-> "get_transcripts"],
       [method |-> "GET",
        path |-> <<lit("transcripts"), param("session_id"), lit("recent")>>,
        endpoint |-> "get_recent_transcripts"],
       [method |-> "GET",
        path |-> <<lit("transcripts"), param("session_id"), lit("since"),
                   param("timestamp")>>,
        endpoint |-> "get_transcripts_since"],
       [method |-> "GET",    path |-> <<lit("context"), param("session_id")>>,
        endpoint |-> "get_session_context"] >>

(* a path pattern matches a request path: a {parameter} takes any segment *)
path_matches(pattern, path) ==
    /\ Len(pattern) = Len(path)
    /\ \A i \in 1..Len(pattern) : pattern[i][1] = "param" \/ pattern[i][2] = path[i]

(* the router takes the first route, in registration order, whose path and *)
(* method match the request; 0 when none does                              *)
route_for(method, path) ==
    LET full == {i \in DOMAIN routes :
                    routes[i].method = method /\ path_matches(routes[i].path, path)}
    IN  IF full = {} THEN 0 ELSE CHOOSE i \in full : \A j \in full : i <= j

(* the value of path parameter name *)
path_param(pattern, path, name) ==
    path[CHOOSE i \in 1..Len(pattern) : pattern[i] = param(name)]

(* the text of a timestamp in a path, and its conversion to int *)
str(n) == ToString(n)
int(text) == CHOOSE n \in 0..MaxSteps : str(n) = text

HTTPException(status_code, detail) ==
    [status |-> status_code, body |-> [detail |-> detail]]
Ok(body) == [status |-> 200, body |-> body]

(* a mutant of verify_owner: the owner is not compared *)
verify_owner_no_403(S, session_id, user, detail) ==
    IF get_session_by_id(S, session_id) = None
    THEN Some(HTTPException(404, "Session not found"))
    ELSE None

(* "Verify user owns the session": the two checks every owner-only         *)
(* endpoint starts with; None when the request may go on                   *)
verify_owner(S, session_id, user, detail) ==
    LET session == get_session_by_id(S, session_id)
    IN  IF session = None
        THEN Some(HTTPException(404, "Session not found"))
        ELSE IF session[1].user_id # user
        THEN Some(HTTPException(403, detail))
        ELSE None

(* a mutant of build_context_restoration_prompt: the conversation is put  *)
(* before the summary                                                     *)
build_context_restoration_prompt_swapped(summary, formatted) ==
    join(<<"[SESSION RESTORATION - Please read carefully before responding]",
           "">>
         \o (IF formatted # ""
             THEN <<"RECENT CONVERSATION:", formatted, "">> ELSE <<>>)
         \o (IF summary # None /\ summary[1] # ""
             THEN <<"PREVIOUS CONTEXT:", summary[1], "">> ELSE <<>>)
         \o <<"CURRENT SCREEN:",
              "[Analyzing shared screen/webcam...]",
              "",
              "INSTRUCTIONS:",
              "1. Read the context and recent conversation carefully",
              "2. Look at what's currently on screen",
              "3. Use deductive reasoning to understand:",
              "   - What problem were we solving?",
              "   - What approach were we taking?",
              "   - Where did we leave off?",
              "   - What's the current state based on the screen?",
              "4. Begin your response with a brief confirmation:",
              "   \"I see we were working on [X]. Based on the screen, it looks like [Y]. Let me continue from there...\"",
              "5. Only proceed once you're confident you understand the context",
              "",
              "If anything is unclear, ask for clarification before continuing.">>,
         "\n")

(* build_context_restoration_prompt *)
build_context_restoration_prompt(summary, formatted) ==
    join(<<"[SESSION RESTORATION - Please read carefully before responding]",
           "">>
         \o (IF summary # None /\ summary[1] # ""
             THEN <<"PREVIOUS CONTEXT:", summary[1], "">> ELSE <<>>)
         \o (IF formatted # ""
             THEN <<"RECENT CONVERSATION:", formatted, "">> ELSE <<>>)
         \o <<"CURRENT SCREEN:",
              "[Analyzing shared screen/webcam...]",
              "",
              "INSTRUCTIONS:",
              "1. Read the context and recent conversation carefully",
              "2. Look at what's currently on screen",
              "3. Use deductive reasoning to understand:",
              "   - What problem were we solving?",
              "   - What approach were we taking?",
              "   - Where did we leave off?",
              "   - What's the current state based on the screen?",
              "4. Begin your response with a brief confirmation:",
              "   \"I see we were working on [X]. Based on the screen, it looks like [Y]. Let me continue from there...\"",
              "5. Only proceed once you're confident you understand the context",
              "",
              "If anything is unclear, ask for clarification before continuing.">>,
         "\n")

(* a mutant of update_gemini_config: the keys and the flag are stored      *)
(* before the voice is looked at                                           *)
update_gemini_config_validates_last(api_keys, live_enabled, live_voice, form_data) ==
    IF \A i \in DOMAIN GEMINI_LIVE_VOICES : GEMINI_LIVE_VOICES[i] # form_data.live_voice
    THEN [api_keys |-> form_data.api_keys, live_enabled |-> form_data.live_enabled,
          live_voice |-> live_voice,
          response |-> HTTPException(400, "Invalid voice. Must be one of: "
                                              \o join(GEMINI_LIVE_VOICES, ", "))]
    ELSE [api_keys |-> form_data.api_keys, live_enabled |-> form_data.live_enabled,
          live_voice |-> form_data.live_voice,
          response |-> Ok([status |-> "ok", api_keys |-> form_data.api_keys,
                           live_enabled |-> form_data.live_enabled,
                           live_voice |-> form_data.live_voice])]

(* update_gemini_config, on the stored values api_keys, live_enabled,      *)
(* live_voice: the values stored afterwards and the response               *)
update_gemini_config(api_keys, live_enabled, live_voice, form_data) ==
    IF \A i \in DOMAIN GEMINI_LIVE_VOICES : GEMINI_LIVE_VOICES[i] # form_data.live_voice
    THEN [api_keys |-> api_keys, live_enabled |-> live_enabled,
          live_voice |-> live_voice,
          response |-> HTTPException(400, "Invalid voice. Must be one of: "
                                              \o join(GEMINI_LIVE_VOICES, ", "))]
    ELSE [api_keys |-> form_data.api_keys, live_enabled |-> form_data.live_enabled,
          live_voice |-> form_data.live_voice,
          response |-> Ok([status |-> "ok", api_keys |-> form_data.api_keys,
                           live_enabled |-> form_data.live_enabled,
                           live_voice |-> form_data.live_voice])]

(* get_gemini_config *)
get_gemini_config(api_keys, live_enabled, live_voice) ==
    Ok([api_keys |-> api_keys, live_enabled |-> live_enabled,
        live_voice |-> live_voice, live_voices |-> GEMINI_LIVE_VOICES])

(* the default of a query parameter that the request leaves out *)
query(value, default) == IF value = None THEN default ELSE value[1]

(* The endpoints.  Each gives the set of possible outcomes                 *)
(* [sessions, transcripts, response] of one request req =                  *)
(* [method, path, user, form, limit] on the tables S, T at time t, where   *)
(* sid and tid are the uuid4 values the request would draw.                *)
router_create_session(S, T, req, sid, t) ==
    LET S1 == create_session(S, sid, req.user, req.form[1], req.form[2], t)
    IN  {[sessions |-> S1, transcripts |-> T, response |-> Ok(S1[sid])]}

router_get_session(S, T, req, session_id) ==
    LET refused == verify_owner(S, session_id, req.user,
                                "Not authorized to access this session")
    IN  {[sessions |-> S, transcripts |-> T,
          response |-> IF refused # None THEN refused[1] ELSE Ok(S[session_id])]}

router_get_user_sessions(S, T, req) ==
    {[sessions |-> S, transcripts |-> T, response |-> Ok([sessions |-> r])] :
        r \in get_sessions_by_user_id(S, req.user, query(req.limit, 50), 0)}

router_get_active_session(S, T, req) ==
    {[sessions |-> S, transcripts |-> T, response |-> Ok([session |-> r])] :
        r \in get_active_session_by_user_id(S, req.user)}

router_update_session(S, T, req, session_id, t) ==
    LET r == update_session(S, session_id, req.user,
                            req.form[1], req.form[2], req.form[3], t)
    IN  {[sessions |-> r.sessions, transcripts |-> T,
          response |-> IF r.ret = None
                       THEN HTTPException(404, "Session not found or not authorized")
                       ELSE Ok(r.ret[1])]}

router_delete_session(S, T, req, session_id) ==
    LET r == delete_session(S, T, session_id, req.user)
    IN  {[sessions |-> r.sessions, transcripts |-> r.transcripts,
          response |-> IF ~r.ret
                       THEN HTTPException(404, "Session not found or not authorized")
                       ELSE Ok([status |-> "ok", message |-> "Session deleted"])]}

router_add_transcript(S, T, req, tid, t, fk) ==
    LET refused == verify_owner(S, req.form[1], req.user,
                                "Not authorized to add to this session")
        r == add_transcript(S, T, tid, req.form[1], req.form[2], req.form[3],
                            None, t, fk)
    IN  IF refused # None
        THEN {[sessions |-> S, transcripts |-> T, response |-> refused[1]]}
        ELSE {[sessions |-> r.sessions, transcripts |-> r.transcripts,
               response |-> Ok(r.ret[1])]}

router_get_transcripts(S, T, req, session_id) ==
    LET refused == verify_owner(S, session_id, req.user,
                                "Not authorized to access this session")
    IN  IF refused # None
        THEN {[sessions |-> S, transcripts |-> T, response |-> refused[1]]}
        ELSE {[sessions |-> S, transcripts |-> T, response |-> Ok([transcripts |-> r])] :
                 r \in get_transcripts_by_session_id(T, session_id,
                                                     query(req.limit, 100), 0)}

router_get_recent_transcripts(S, T, req, session_id) ==
    LET refused == verify_owner(S, session_id, req.user,
                                "Not authorized to access this session")
    IN  IF refused # None
        THEN {[sessions |-> S, transcripts |-> T, response |-> refused[1]]}
        ELSE {[sessions |-> S, transcripts |-> T,
               response |-> Ok([transcripts |-> r,
                                formatted |-> format_transcript_for_context(r),
                                count |-> Len(r)])] :
                 r \in get_recent_transcripts(T, session_id, query(req.limit, 50))}

router_get_transcripts_since(S, T, req, session_id, timestamp) ==
    LET refused == verify_owner(S, session_id, req.user,
                                "Not authorized to access this session")
    IN  IF refused # None
        THEN {[sessions |-> S, transcripts |-> T, response |-> refused[1]]}
        ELSE {[sessions |-> S, transcripts |-> T, response |-> Ok([transcripts |-> r])] :
                 r \in get_transcripts_since(T, session_id, timestamp)}

router_get_session_context(S, T, req, session_id) ==
    LET refused == verify_owner(S, session_id, req.user,
                                "Not authorized to access this session")
    IN  IF refused # None
        THEN {[sessions |-> S, transcripts |-> T, response |-> refused[1]]}
        ELSE {[sessions |-> S, transcripts |-> T,
               response |-> Ok([session |-> S[session_id],
                                transcripts |-> r,
                                formatted_transcripts |-> format_transcript_for_context(r),
                                context_prompt |->
                                    build_context_restoration_prompt(
                                        S[session_id].summary,
                                        format_transcript_for_context(r))])] :
                 r \in get_recent_transcripts(T, session_id, query(req.limit, 50))}

(* one request through the router: the route is chosen, then its endpoint  *)
(* runs to completion                                                      *)
serve(S, T, req, sid, tid, t, fk) ==
    LET n == route_for(req.method, req.path) IN
    IF n = 0
    THEN {[sessions |-> S, transcripts |-> T,
           response |-> HTTPException(404, "Not Found")]}
    ELSE LET e == routes[n].endpoint
             session_id == path_param(routes[n].path, req.path, "session_id")
         IN  CASE e = "create_session" -> router_create_session(S, T, req, sid, t)
               [] e = "get_session" -> router_get_session(S, T, req, session_id)
               [] e = "get_user_sessions" -> router_get_user_sessions(S, T, req)
               [] e = "get_active_session" -> router_get_active_session(S, T, req)
               [] e = "update_session" -> router_update_session(S, T, req, session_id, t)
               [] e = "delete_session" -> router_delete_session(S, T, req, session_id)
               [] e = "add_transcript" -> router_add_transcript(S, T, req, tid, t, fk)
               [] e = "get_transcripts" -> router_get_transcripts(S, T, req, session_id)
               [] e = "get_recent_transcripts" ->
                      router_get_recent_transcripts(S, T, req, session_id)
               [] e = "get_transcripts_since" ->
                      router_get_transcripts_since(S, T, req, session_id,
                          int(path_param(routes[n].path, req.path, "timestamp")))
               [] e = "get_session_context" ->
                      router_get_session_context(S, T, req, session_id)

(* the configuration no update has been made to *)
ConfigAtStart ==
    /\ GEMINI_API_KEYS = <<>>
    /\ GEMINI_LIVE_ENABLED = FALSE
    /\ GEMINI_LIVE_VOICE = GEMINI_LIVE_VOICES[1]

InitWith(budget) ==
    /\ ConfigAtStart
    /\ sessions = [i \in {} |-> None]
    /\ transcripts = <<>>
    /\ now = 0
    /\ nextSid = 0
    /\ nextTid = 0
    /\ appended = [i \in {} |-> 0]
    /\ steps = budget
    /\ foreign_keys \in BOOLEAN
    /\ workers = [w \in Workers |-> Idle]
    /\ call = [op |-> "init"]
    /\ ret = None

Init == InitWith(MaxSteps)

(* a call that changes the store or the clock uses one step of the budget *)
Budget(changed) ==
    /\ changed => steps > 0
    /\ steps' = IF changed THEN steps - 1 ELSE steps

(* the history of session id once its counter or its rows were written by *)
(* a call other than add_transcript                                       *)
Touch(id) ==
    [i \in DOMAIN appended |-> IF i = id THEN -1 ELSE appended[i]]

(* one second passes *)
Tick ==
    /\ Budget(TRUE)
    /\ now' = now + 1
    /\ call' = [op |-> "tick"]
    /\ ret' = None
    /\ UNCHANGED <<gemini_config, sessions, transcripts, nextSid, nextTid, appended, foreign_keys, workers>>

(***************************************************************************)
(* Calls of the table accessors, each run to completion                    *)
(***************************************************************************)

CreateSession ==
    \E u \in Users, m \in Models, v \in Voices :
        /\ Budget(TRUE)
        /\ LET id == uuid4("s", nextSid + 1) IN
            /\ sessions' = create_session(sessions, id, u, m, v, now)
            /\ appended' = [i \in DOMAIN sessions' |->
                              IF i = id THEN 0 ELSE appended[i]]
            /\ call' = [op |-> "create_session", id |-> id, user_id |-> u]
            /\ ret' = Some(sessions'[id])
        /\ nextSid' = nextSid + 1
        /\ UNCHANGED <<gemini_config, transcripts, now, nextTid, foreign_keys, workers>>

UpdateSession(forms) ==
    \E id \in IdArgs, u \in Users, f \in forms :
        LET r == update_session(sessions, id, u, f[1], f[2], f[3], now) IN
        /\ Budget(r.sessions # sessions)
        /\ sessions' = r.sessions
        /\ call' = [op |-> "update_session", id |-> id, user_id |-> u, form |-> f]
        /\ ret' = r.ret
        /\ UNCHANGED <<gemini_config, transcripts, now, nextSid, nextTid, appended, foreign_keys, workers>>

IncrementMessageCount ==
    \E id \in IdArgs :
        LET r == increment_message_count(sessions, id, now) IN
        /\ Budget(r.sessions # sessions)
        /\ sessions' = r.sessions
        /\ appended' = IF r.ret = None THEN appended ELSE Touch(id)
        /\ call' = [op |-> "increment_message_count", id |-> id]
        /\ ret' = r.ret
        /\ UNCHANGED <<gemini_config, transcripts, now, nextSid, nextTid, foreign_keys, workers>>

DeleteSession ==
    \E id \in IdArgs, u \in Users :
        LET r == delete_session(sessions, transcripts, id, u) IN
        /\ Budget(r.ret)
        /\ sessions' = r.sessions
        /\ transcripts' = r.transcripts
        /\ appended' = [i \in DOMAIN sessions' |-> appended[i]]
        /\ call' = [op |-> "delete_session", id |-> id, user_id |-> u,
                    rows |-> get_transcript_count(transcripts, id)]
        /\ ret' = r.ret
        /\ UNCHANGED <<gemini_config, now, nextSid, nextTid, foreign_keys, workers>>

AddTranscript(roles) ==
    \E id \in IdArgs, role \in roles, content \in Contents :
        LET r == add_transcript(sessions, transcripts, uuid4("t", nextTid + 1), id,
                                role, content, None, now, foreign_keys) IN
        /\ Budget(r.ret # "IntegrityError")
        /\ sessions' = r.sessions
        /\ transcripts' = r.transcripts
        /\ appended' = [i \in DOMAIN appended |->
                          IF i = id /\ appended[i] >= 0
                          THEN appended[i] + 1 ELSE appended[i]]
        /\ call' = [op |-> "add_transcript", id |-> id]
        /\ ret' = r.ret
        /\ nextTid' = IF r.ret = "IntegrityError" THEN nextTid ELSE nextTid + 1
        /\ UNCHANGED <<gemini_config, now, nextSid, foreign_keys, workers>>

DeleteTranscriptsBySessionId ==
    \E id \in IdArgs :
        LET r == delete_transcripts_by_session_id(transcripts, id) IN
        /\ Budget(r.transcripts # transcripts)
        /\ transcripts' = r.transcripts
        /\ appended' = Touch(id)
        /\ call' = [op |-> "delete_transcripts_by_session_id", id |-> id]
        /\ ret' = r.ret
        /\ UNCHANGED <<gemini_config, sessions, now, nextSid, nextTid, foreign_keys, workers>>

GetActiveSessionByUserId ==
    \E u \in Users :
        \E r \in get_active_session_by_user_id(sessions, u) :
            /\ call' = [op |-> "get_active_session_by_user_id", user_id |-> u]
            /\ ret' = r
            /\ UNCHANGED <<gemini_config, sessions, transcripts, now, nextSid, nextTid,
                           appended, steps, foreign_keys, workers>>

GetRecentTranscripts ==
    \E id \in IdArgs, limit \in 0..(Len(transcripts) + 1) :
        \E r \in get_recent_transcripts(transcripts, id, limit) :
            /\ call' = [op |-> "get_recent_transcripts", id |-> id, limit |-> limit]
            /\ ret' = r
            /\ UNCHANGED <<gemini_config, sessions, transcripts, now, nextSid, nextTid,
                           appended, steps, foreign_keys, workers>>

GetTranscriptsSince ==
    \E id \in IdArgs, since \in (-1)..now :
        \E r \in get_transcripts_since(transcripts, id, since) :
            /\ call' = [op |-> "get_transcripts_since", id |-> id,
                        since_timestamp |-> since]
            /\ ret' = r
            /\ UNCHANGED <<gemini_config, sessions, transcripts, now, nextSid, nextTid,
                           appended, steps, foreign_keys, workers>>

(***************************************************************************)
(* Spec: the writing calls of the persistence service                      *)
(***************************************************************************)
Next ==
    \/ Tick
    \/ CreateSession
    \/ IncrementMessageCount
    \/ DeleteSession
    \/ AddTranscript({"user"})
    \/ DeleteTranscriptsBySessionId

Spec == Init /\ [][Next]_vars

(***************************************************************************)
(* SpecCount: every call that writes a session or its entries              *)
(***************************************************************************)
NextCount ==
    \/ Tick
    \/ CreateSession
    \/ UpdateSession({<<Some("t"), Some("sum"), Some("ended")>>})
    \/ IncrementMessageCount
    \/ DeleteSession
    \/ AddTranscript({"user"})
    \/ DeleteTranscriptsBySessionId

InitCount == InitWith(MaxCountSteps)

SpecCount == InitCount /\ [][NextCount]_vars

(***************************************************************************)
(* SpecMeta: session records, their updates and the active-session query   *)
(***************************************************************************)
NextMeta ==
    \/ Tick
    \/ CreateSession
    \/ UpdateSession(UpdateForms)
    \/ GetActiveSessionByUserId

SpecMeta == Init /\ [][NextMeta]_vars

(***************************************************************************)
(* SpecQuery: the transcript queries over a growing log                    *)
(***************************************************************************)
NextQuery ==
    \/ Tick
    \/ CreateSession
    \/ AddTranscript({"user"})
    \/ GetRecentTranscripts
    \/ GetTranscriptsSince

SpecQuery == Init /\ [][NextQuery]_vars

(***************************************************************************)
(* SpecConc: POST /transcript requests served by several workers at once,  *)
(* interleaved at their reads and writes of the store                      *)
(***************************************************************************)

(* the router's add_transcript up to the ownership check *)
PostTranscriptBegin(w) ==
    \E id \in IdArgs, u \in Users :
        LET session == get_session_by_id(sessions, id) IN
        /\ workers[w].pc = "idle"
        /\ call' = [op |-> "POST /transcript", worker |-> w, id |-> id, user_id |-> u]
        /\ ret' = IF session = None THEN 404
                  ELSE IF session[1].user_id # u THEN 403 ELSE 0
        /\ workers' = IF ret' = 0
                      THEN [workers EXCEPT ![w] = [pc |-> "insert", session_id |-> id,
                                                   message_count |-> 0]]
                      ELSE workers
        /\ UNCHANGED <<gemini_config, sessions, transcripts, now, nextSid, nextTid, appended,
                       steps, foreign_keys>>

(* GeminiTranscripts.add_transcript: db.add(result); db.commit() *)
AddTranscriptInsert(w) ==
    LET id == workers[w].session_id
        row == GeminiTranscriptModel(uuid4("t", nextTid + 1), id, "user", "hi", None, now)
        ins == insert_transcript(sessions, transcripts, row, foreign_keys)
    IN  /\ workers[w].pc = "insert"
        /\ Budget(ins.ok)
        /\ transcripts' = ins.transcripts
        /\ nextTid' = IF ins.ok THEN nextTid + 1 ELSE nextTid
        /\ workers' = [workers EXCEPT ![w] =
                          IF ins.ok THEN [@ EXCEPT !.pc = "increment_read"] ELSE Idle]
        /\ call' = [op |-> "add_transcript.insert", worker |-> w, id |-> id]
        /\ ret' = IF ins.ok THEN 0 ELSE 500
        /\ UNCHANGED <<gemini_config, sessions, now, nextSid, appended, foreign_keys>>

(* increment_message_count: session = db.get(GeminiSession, id) *)
IncrementRead(w) ==
    LET id == workers[w].session_id
        session == increment_read(sessions, id)
    IN  /\ workers[w].pc = "increment_read"
        /\ workers' = [workers EXCEPT ![w] =
                          IF session = None THEN Idle
                          ELSE [@ EXCEPT !.pc = "increment_write",
                                         !.message_count = session[1].message_count]]
        /\ call' = [op |-> "increment_message_count.read", worker |-> w, id |-> id]
        /\ ret' = IF session = None THEN 200 ELSE 0
        /\ UNCHANGED <<gemini_config, sessions, transcripts, now, nextSid, nextTid, appended,
                       steps, foreign_keys>>

(* increment_message_count: the assignment and db.commit(); the request is *)
(* answered                                                                *)
IncrementWrite(w) ==
    LET id == workers[w].session_id
        r == increment_write(sessions, id, workers[w].message_count, now)
    IN  /\ workers[w].pc = "increment_write"
        /\ sessions' = r.sessions
        /\ appended' = [i \in DOMAIN appended |->
                          IF i = id /\ appended[i] >= 0
                          THEN appended[i] + 1 ELSE appended[i]]
        /\ workers' = [workers EXCEPT ![w] = Idle]
        /\ call' = [op |-> "increment_message_count.write", worker |-> w, id |-> id]
        /\ ret' = 200
        /\ UNCHANGED <<gemini_config, transcripts, now, nextSid, nextTid, steps, foreign_keys>>

NextConc ==
    \/ Tick
    \/ CreateSession
    \/ \E w \in Workers : PostTranscriptBegin(w)
    \/ \E w \in Workers : AddTranscriptInsert(w)
    \/ \E w \in Workers : IncrementRead(w)
    \/ \E w \in Workers : IncrementWrite(w)

SpecConc == Init /\ [][NextConc]_vars

(***************************************************************************)
(* SpecRace: the same workers, with DELETE /session requests served in     *)
(* between their steps                                                     *)
(***************************************************************************)
NextRace ==
    \/ Tick
    \/ CreateSession
    \/ DeleteSession
    \/ \E w \in Workers : PostTranscriptBegin(w)
    \/ \E w \in Workers : AddTranscriptInsert(w)
    \/ \E w \in Workers : IncrementRead(w)
    \/ \E w \in Workers : IncrementWrite(w)

SpecRace == Init /\ [][NextRace]_vars

(***************************************************************************)
(* SpecFormat: the two formatters applied to transcript sequences and      *)
(* summaries                                                               *)
(***************************************************************************)

(* the lists of GeminiTranscriptModel of at most MaxRows rows *)
TranscriptLists ==
    UNION {{[i \in 1..n |-> GeminiTranscriptModel(uuid4("t", i), uuid4("s", 1),
                                                  f[i][1], f[i][2], None, 0)] :
               f \in [1..n -> RoleStrings \X TextArgs]} : n \in 0..MaxRows}

(* the arguments are drawn: a summary and a list of transcripts *)
InitFormat ==
    /\ ConfigAtStart
    /\ sessions = [i \in {} |-> None]
    /\ transcripts = <<>>
    /\ now = 0
    /\ nextSid = 0
    /\ nextTid = 0
    /\ appended = [i \in {} |-> 0]
    /\ steps = 0
    /\ foreign_keys \in BOOLEAN
    /\ workers = [w \in Workers |-> Idle]
    /\ \E summary \in SummaryArgs, rows \in TranscriptLists :
           call = [op |-> "arguments", summary |-> summary, rows |-> rows]
    /\ ret = None

FormatTranscriptForContext ==
    /\ call.op = "arguments"
    /\ call' = [op |-> "format_transcript_for_context", rows |-> call.rows]
    /\ ret' = format_transcript_for_context(call.rows)
    /\ UNCHANGED <<gemini_config, sessions, transcripts, now, nextSid, nextTid,
                   appended, steps, foreign_keys, workers>>

(* get_session_context's two formatting steps: the transcripts are         *)
(* formatted, then the prompt is built from the summary and that text      *)
BuildContextRestorationPrompt ==
    /\ call.op = "arguments"
    /\ call' = [call EXCEPT !.op = "build_context_restoration_prompt"]
    /\ ret' = build_context_restoration_prompt(
                  call.summary, format_transcript_for_context(call.rows))
    /\ UNCHANGED <<gemini_config, sessions, transcripts, now, nextSid, nextTid,
                   appended, steps, foreign_keys, workers>>

NextFormat ==
    \/ FormatTranscriptForContext
    \/ BuildContextRestorationPrompt

SpecFormat == InitFormat /\ [][NextFormat]_vars

(***************************************************************************)
(* SpecConfig: the administrator reads and updates the configuration       *)
(***************************************************************************)

(* any configuration earlier updates may have stored *)
InitConfig ==
    /\ sessions = [i \in {} |-> None]
    /\ transcripts = <<>>
    /\ now = 0
    /\ nextSid = 0
    /\ nextTid = 0
    /\ appended = [i \in {} |-> 0]
    /\ steps = 0
    /\ foreign_keys \in BOOLEAN
    /\ workers = [w \in Workers |-> Idle]
    /\ call = [op |-> "init"]
    /\ ret = None
    /\ GEMINI_API_KEYS \in KeyLists
    /\ GEMINI_LIVE_ENABLED \in BOOLEAN
    /\ GEMINI_LIVE_VOICE \in {GEMINI_LIVE_VOICES[i] : i \in DOMAIN GEMINI_LIVE_VOICES}

UpdateGeminiConfig ==
    \E api_keys \in KeyLists, live_enabled \in BOOLEAN, live_voice \in VoiceArgs :
        LET form_data == [api_keys |-> api_keys, live_enabled |-> live_enabled,
                          live_voice |-> live_voice]
            r == update_gemini_config(GEMINI_API_KEYS, GEMINI_LIVE_ENABLED,
                                      GEMINI_LIVE_VOICE, form_data)
        IN  /\ GEMINI_API_KEYS' = r.api_keys
            /\ GEMINI_LIVE_ENABLED' = r.live_enabled
            /\ GEMINI_LIVE_VOICE' = r.live_voice
            /\ call' = [op |-> "update_gemini_config", form_data |-> form_data]
            /\ ret' = r.response
            /\ UNCHANGED <<sessions, transcripts, now, nextSid, nextTid,
                           appended, steps, foreign_keys, workers>>

GetGeminiConfig ==
    /\ call' = [op |-> "get_gemini_config"]
    /\ ret' = get_gemini_config(GEMINI_API_KEYS, GEMINI_LIVE_ENABLED, GEMINI_LIVE_VOICE)
    /\ UNCHANGED <<gemini_config, sessions, transcripts, now, nextSid, nextTid,
                   appended, steps, foreign_keys, workers>>

NextConfig ==
    \/ UpdateGeminiConfig
    \/ GetGeminiConfig

SpecConfig == InitConfig /\ [][NextConfig]_vars

(***************************************************************************)
(* SpecHttp: requests of authenticated users served one at a time          *)
(***************************************************************************)

(* the request is served; the tables, the id counters and the history of   *)
(* the sessions follow the outcome                                         *)
Http(req) ==
    \E o \in serve(sessions, transcripts, req, uuid4("s", nextSid + 1),
                   uuid4("t", nextTid + 1), now, foreign_keys) :
        /\ Budget(o.sessions # sessions \/ o.transcripts # transcripts)
        /\ sessions' = o.sessions
        /\ transcripts' = o.transcripts
        /\ nextSid' = IF DOMAIN o.sessions \subseteq DOMAIN sessions
                      THEN nextSid ELSE nextSid + 1
        /\ nextTid' = IF Len(o.transcripts) > Len(transcripts)
                      THEN nextTid + 1 ELSE nextTid
        /\ appended' =
              [i \in DOMAIN o.sessions |->
                  IF i \notin DOMAIN sessions THEN 0
                  ELSE IF Len(o.transcripts) > Len(transcripts) /\ req.form[1] = i
                            /\ appended[i] >= 0
                  THEN appended[i] + 1 ELSE appended[i]]
        /\ call' = [op |-> "http", req |-> req]
        /\ ret' = o.response
        /\ UNCHANGED <<gemini_config, now, foreign_keys, workers>>

Request(method, path, user, form, limit) ==
    [method |-> method, path |-> path, user |-> user, form |-> form, limit |-> limit]

HttpGet ==
    \E id \in IdArgs, u \in Users, limit \in {None, Some(1)}, since \in 0..now :
        \/ \E path \in {<<"session", id>>, <<"sessions">>, <<"transcripts", id>>,
                        <<"transcripts", id, "since", str(since)>>} :
               Http(Request("GET", path, u, <<>>, None))
        \/ \E path \in {<<"transcripts", id, "recent">>, <<"context", id>>} :
               Http(Request("GET", path, u, <<>>, limit))

HttpPost ==
    \E id \in IdArgs, u \in Users, role \in Roles, content \in Contents,
       m \in Models, v \in Voices :
        \/ Http(Request("POST", <<"session">>, u, <<m, v>>, None))
        \/ Http(Request("POST", <<"transcript">>, u, <<id, role, content>>, None))

HttpPut ==
    \E id \in IdArgs, u \in Users, f \in {<<None, Some("sum"), None>>} :
        Http(Request("PUT", <<"session", id>>, u, f, None))

HttpDelete ==
    \E id \in IdArgs, u \in Users :
        Http(Request("DELETE", <<"session", id>>, u, <<>>, None))

NextHttp ==
    \/ Tick
    \/ HttpGet
    \/ HttpPost
    \/ HttpPut
    \/ HttpDelete

InitHttp == InitWith(MaxHttpSteps)

SpecHttp == InitHttp /\ [][NextHttp]_vars

(***************************************************************************)
(* Properties                                                              *)
(***************************************************************************)

(* the rows of session id in the order they were appended *)
Chronological(id) == SelectSeq(transcripts, LAMBDA r : r.session_id = id)

(* the owner test of the claims: id names a stored session of user u *)
Owns(id, u) == id \in DOMAIN sessions /\ sessions[id].user_id = u

(* C1: after exactly N add_transcript calls on a freshly created session,  *)
(* with no increment_message_count or delete_transcripts_by_session_id     *)
(* call on it in between, its message_count is N and get_transcript_count  *)
(* is N.                                                                   *)
C1_CountAfterAppends ==
    \A id \in DOMAIN sessions :
        appended[id] >= 0 =>
            /\ sessions[id].message_count = appended[id]
            /\ get_transcript_count(transcripts, id) = appended[id]

(* C1 witness: a session that took two appends and nothing else *)
C1_Witness ==
    \E id \in DOMAIN sessions :
        /\ appended[id] = 2
        /\ call.op = "add_transcript" /\ call.id = id
        /\ sessions[id].message_count = 2

(* C3: in the state right after delete_session(id, owner) returned True,   *)
(* get_session_by_id(id) is None, get_transcripts_by_session_id(id, ...)   *)
(* is empty for every limit and offset, and get_transcript_count(id) is 0. *)
C3_DeleteCascades ==
    (call.op = "delete_session" /\ ret) =>
        /\ get_session_by_id(sessions, call.id) = None
        /\ \A limit \in 0..(Len(transcripts) + 1), offset \in 0..Len(transcripts) :
               get_transcripts_by_session_id(transcripts, call.id, limit, offset)
                   = {<<>>}
        /\ get_transcript_count(transcripts, call.id) = 0

(* C3 witness: a session that held two entries was deleted *)
C3_Witness ==
    /\ call.op = "delete_session" /\ ret
    /\ call.rows = 2

(* C5: delete_session(id, user_id) returns False when id names no session  *)
(* or the session's owner differs from user_id, and then no session and    *)
(* no transcript is removed; it returns True exactly when the owner        *)
(* matches.                                                                *)
C5_DeleteOwnerOnly ==
    [][call'.op = "delete_session" =>
          /\ ret' = Owns(call'.id, call'.user_id)
          /\ ~Owns(call'.id, call'.user_id) =>
                 sessions' = sessions /\ transcripts' = transcripts]_vars

(* C5 witness: a user who is not the owner tried to delete a session that  *)
(* holds entries; the call returned False and the rows are still stored    *)
C5_Witness ==
    /\ call.op = "delete_session" /\ ~ret
    /\ call.id \in DOMAIN sessions
    /\ call.rows > 0
    /\ get_transcript_count(transcripts, call.id) = call.rows

(* C4: update_session(id, user_id, ...) with a user_id that is not the     *)
(* session's owner, or an id that names no session, returns None and       *)
(* leaves every stored session unchanged in every field.                   *)
C4_UpdateByStranger ==
    [][(call'.op = "update_session" /\ ~Owns(call'.id, call'.user_id)) =>
          /\ ret' = None
          /\ sessions' = sessions
          /\ transcripts' = transcripts]_vars

(* C4 witness: a user who is not the owner supplied title, summary and     *)
(* status for a stored session and got None                                *)
C4_Witness ==
    /\ call.op = "update_session" /\ ret = None
    /\ call.id \in DOMAIN sessions
    /\ sessions[call.id].user_id # call.user_id
    /\ call.form[1] # None /\ call.form[2] # None /\ call.form[3] # None
    /\ sessions[call.id].summary = None
    /\ sessions[call.id].last_summary_at = None

(* C10: get_active_session_by_user_id(user_id) returns a session owned by  *)
(* user_id whose status is active and whose updated_at is greatest among   *)
(* that user's active sessions; it returns None exactly when the user owns *)
(* no active session.                                                      *)
C10_ActiveSession ==
    call.op = "get_active_session_by_user_id" =>
        LET active == {i \in DOMAIN sessions :
                          /\ sessions[i].user_id = call.user_id
                          /\ sessions[i].status = "active"}
        IN  /\ (ret = None) <=> (active = {})
            /\ ret # None =>
                  /\ ret[1].id \in active
                  /\ sessions[ret[1].id] = ret[1]
                  /\ \A k \in active : sessions[k].updated_at <= ret[1].updated_at

(* C10 witness: the user owns an older and a newer active session and a    *)
(* session was returned                                                    *)
C10_Witness ==
    /\ call.op = "get_active_session_by_user_id" /\ ret # None
    /\ \E i, j \in DOMAIN sessions :
          /\ sessions[i].user_id = call.user_id /\ sessions[j].user_id = call.user_id
          /\ sessions[i].status = "active" /\ sessions[j].status = "active"
          /\ sessions[i].updated_at < sessions[j].updated_at
          /\ ret[1].id = j

(* C2, as claimed: once every add_transcript call that overlapped on a     *)
(* session has completed, the session's message_count has grown by the     *)
(* number of those calls: no increment is lost.                            *)
C2_NoLostIncrement ==
    (\A w \in Workers : workers[w].pc = "idle") =>
        \A id \in DOMAIN sessions :
            appended[id] >= 0 => sessions[id].message_count = appended[id]

(* C7, as claimed: get_recent_transcripts(id, k) returns exactly the last  *)
(* min(k, total) entries of the session in the order they were appended,   *)
(* entries that share a timestamp included.                                *)
C7_RecentIsTail ==
    (call.op = "get_recent_transcripts" /\ call.id \in DOMAIN sessions) =>
        LET rows == Chronological(call.id)
            n == Min(call.limit, Len(rows))
        IN  ret = SubSeq(rows, Len(rows) - n + 1, Len(rows))

(* C8, as claimed: get_transcripts_since(id, t) returns exactly the        *)
(* session's entries with timestamp > t in ascending timestamp order,      *)
(* leaves the store unchanged, and a second call with the same arguments   *)
(* and no write in between returns the same sequence.                      *)
C8_SinceExactAndRepeatable ==
    [][(call'.op = "get_transcripts_since" /\ call'.id \in DOMAIN sessions) =>
          /\ {ret'[i] : i \in DOMAIN ret'} =
                 {r \in filter_by_session(transcripts, call'.id) :
                      r.timestamp > call'.since_timestamp}
          /\ Len(ret') = Cardinality({ret'[i] : i \in DOMAIN ret'})
          /\ \A i, j \in DOMAIN ret' : i < j => ret'[i].timestamp <= ret'[j].timestamp
          /\ store' = store
          /\ call = call' => ret' = ret]_vars

(* the session a request to an owner-only endpoint names, or None for any  *)
(* other request                                                           *)
NamedSession(req) ==
    IF req.method = "POST" /\ req.path = <<"transcript">> THEN Some(req.form[1])
    ELSE IF req.method # "GET" THEN None
    ELSE IF Len(req.path) = 2 /\ req.path[1] \in {"session", "transcripts", "context"}
    THEN Some(req.path[2])
    ELSE IF Len(req.path) = 3 /\ req.path[1] = "transcripts" /\ req.path[3] = "recent"
    THEN Some(req.path[2])
    ELSE IF Len(req.path) = 4 /\ req.path[1] = "transcripts" /\ req.path[3] = "since"
    THEN Some(req.path[2])
    ELSE None

(* C6: a request to GET /session/{id}, POST /transcript,                   *)
(* GET /transcripts/{id}, GET /transcripts/{id}/recent,                    *)
(* GET /transcripts/{id}/since/{timestamp} or GET /context/{id} that names *)
(* a missing session is answered 404, one by a user who is not the owner   *)
(* is answered 403, and either way the answer carries only the error       *)
(* detail and no stored record is created or changed.                      *)
C6_OwnerOnlyEndpoints ==
    [][(call'.op = "http" /\ NamedSession(call'.req) # None) =>
          LET id == NamedSession(call'.req)[1]
              refused == /\ DOMAIN ret'.body = {"detail"}
                         /\ sessions' = sessions
                         /\ transcripts' = transcripts
          IN  /\ id \notin DOMAIN sessions => (ret'.status = 404 /\ refused)
              /\ (id \in DOMAIN sessions /\ sessions[id].user_id # call'.req.user) =>
                     (ret'.status = 403 /\ refused)]_vars

(* C6 witness: a user who is not the owner asked for the context of a      *)
(* session that holds an entry and was answered 403                        *)
C6_Witness ==
    /\ call.op = "http"
    /\ call.req.method = "GET" /\ Len(call.req.path) = 2
    /\ call.req.path[1] = "context"
    /\ call.req.path[2] \in DOMAIN sessions
    /\ sessions[call.req.path[2]].user_id # call.req.user
    /\ get_transcript_count(transcripts, call.req.path[2]) > 0
    /\ ret.status = 403

(* C9, as claimed: GET /session/active by an authenticated user is         *)
(* answered 200 with the user's most recent active session, or with an     *)
(* empty result when the user has none.                                    *)
C9_ActiveRoute ==
    (/\ call.op = "http"
     /\ call.req.method = "GET"
     /\ call.req.path = <<"session", "active">>) =>
        /\ ret.status = 200
        /\ ret.body \in {[session |-> r] :
                            r \in get_active_session_by_user_id(sessions, call.req.user)}

(* C11: the message_count of a session that is still stored never          *)
(* decreases from one state to the next: it is 0 when create_session       *)
(* stores the session, only increment_message_count (called directly or    *)
(* by add_transcript) changes it, and update_session and                   *)
(* delete_transcripts_by_session_id leave it unchanged.                    *)
C11_CountNeverDecreases ==
    [][/\ \A id \in DOMAIN sessions' \ DOMAIN sessions :
              sessions'[id].message_count = 0
       /\ \A id \in DOMAIN sessions \cap DOMAIN sessions' :
              /\ sessions'[id].message_count >= sessions[id].message_count
              /\ sessions'[id].message_count # sessions[id].message_count =>
                     /\ call'.op \in {"increment_message_count", "add_transcript"}
                     /\ call'.id = id
              /\ call'.op \in {"update_session", "delete_transcripts_by_session_id"} =>
                     sessions'[id].message_count = sessions[id].message_count]_vars

(* C11 witness: the owner updated a session whose counter had already      *)
(* grown, and the counter is still what it was                             *)
C11_Witness ==
    /\ call.op = "update_session" /\ ret # None
    /\ sessions[call.id].message_count >= 1
    /\ sessions[call.id].status = "ended"

(* C12, as claimed: in every reachable state the status of every stored    *)
(* session is one of active, timeout, ended, whatever status arguments     *)
(* create_session and update_session were called with.                     *)
C12_StatusIsOneOfThree ==
    \A id \in DOMAIN sessions : sessions[id].status \in {"active", "timeout", "ended"}

(* C13, as claimed: under any interleaving of POST /transcript requests    *)
(* and DELETE /session requests, an entry is stored only for a session     *)
(* that exists at that moment, and once every request has completed no     *)
(* stored entry names a session that is not stored.                        *)
C13_NoEntryOutlivesItsSession ==
    [][/\ Len(transcripts') > Len(transcripts) =>
              transcripts'[Len(transcripts')].session_id \in DOMAIN sessions
       /\ (\A w \in Workers : workers'[w].pc = "idle") =>
              \A i \in DOMAIN transcripts' :
                  transcripts'[i].session_id \in DOMAIN sessions']_vars

(* the fixed first lines and the fixed last lines of the prompt *)
RestorationHeader ==
    "[SESSION RESTORATION - Please read carefully before responding]\n\n"
InstructionBlock ==
    "CURRENT SCREEN:\n"
    \o "[Analyzing shared screen/webcam...]\n"
    \o "\n"
    \o "INSTRUCTIONS:\n"
    \o "1. Read the context and recent conversation carefully\n"
    \o "2. Look at what's currently on screen\n"
    \o "3. Use deductive reasoning to understand:\n"
    \o "   - What problem were we solving?\n"
    \o "   - What approach were we taking?\n"
    \o "   - Where did we leave off?\n"
    \o "   - What's the current state based on the screen?\n"
    \o "4. Begin your response with a brief confirmation:\n"
    \o "   \"I see we were working on [X]. Based on the screen, it looks like [Y]. Let me continue from there...\"\n"
    \o "5. Only proceed once you're confident you understand the context\n"
    \o "\n"
    \o "If anything is unclear, ask for clarification before continuing."

(* C14: the prompt is a function of (summary, transcripts): the fixed      *)
(* header, then the PREVIOUS CONTEXT: block with the summary exactly when  *)
(* a summary is present, then the RECENT CONVERSATION: block with the      *)
(* formatted transcripts exactly when the sequence is not empty, then the  *)
(* fixed instruction block, and nothing else.                              *)
C14_PromptLayout ==
    call.op = "build_context_restoration_prompt" =>
        LET present == call.summary # None /\ call.summary[1] # ""
            previous == "PREVIOUS CONTEXT:\n" \o call.summary[1] \o "\n\n"
            recent == "RECENT CONVERSATION:\n"
                          \o format_transcript_for_context(call.rows) \o "\n\n"
        IN  ret = RestorationHeader
                      \o (IF present THEN previous ELSE "")
                      \o (IF call.rows # <<>> THEN recent ELSE "")
                      \o InstructionBlock

(* C14 witness: a prompt built from a summary and two entries, the second  *)
(* with empty content                                                      *)
C14_Witness ==
    /\ call.op = "build_context_restoration_prompt"
    /\ call.summary = Some("sum")
    /\ Len(call.rows) = 2
    /\ call.rows[2].content = ""

(* C16: the transcript formatter emits one entry per transcript, in input  *)
(* order, separated by newlines: "[USER]: <content>" when the role is      *)
(* user, "[GEMINI]: <content>" for every other role; the empty string for  *)
(* the empty sequence.                                                     *)
C16_OneLabelledEntryPerTranscript ==
    call.op = "format_transcript_for_context" =>
        LET rows == call.rows
            n == Len(rows)
            entry(r) == (IF r.role = "user" THEN "[USER]: " ELSE "[GEMINI]: ")
                            \o r.content
        IN  /\ n = 0 => ret = ""
            /\ n = 1 => ret = entry(rows[1])
            /\ n >= 2 => ret = format_transcript_for_context(SubSeq(rows, 1, n - 1))
                                   \o "\n" \o entry(rows[n])

(* C16 witness: a system entry followed by a user entry *)
C16_Witness ==
    /\ call.op = "format_transcript_for_context"
    /\ Len(call.rows) = 2
    /\ call.rows[1].role = "system" /\ call.rows[2].role = "user"
    /\ call.rows[1].content = "hi" /\ call.rows[2].content = "hi"
    /\ ret = "[GEMINI]: hi\n[USER]: hi"

(* C17: an update_session by the owner that succeeds sets each of title,   *)
(* summary, status that is supplied and leaves each one that is not        *)
(* supplied as it was; it sets last_summary_at exactly when a summary is   *)
(* supplied, always sets updated_at to the time of the call, and changes   *)
(* no id, user_id, model, voice, message_count or created_at, no other     *)
(* session and no transcript entry.                                        *)
C17_UpdateFrame ==
    [][(call'.op = "update_session" /\ ret' # None) =>
          LET id == call'.id
              f == call'.form
              old == sessions[id]
              new == sessions'[id]
          IN  /\ Owns(id, call'.user_id)
              /\ DOMAIN sessions' = DOMAIN sessions
              /\ ret' = Some(new)
              /\ new.title = IF f[1] # None THEN f[1] ELSE old.title
              /\ new.summary = IF f[2] # None THEN f[2] ELSE old.summary
              /\ new.status = IF f[3] # None THEN f[3][1] ELSE old.status
              /\ new.last_summary_at =
                     IF f[2] # None THEN Some(now) ELSE old.last_summary_at
              /\ new.updated_at = now
              /\ \A k \in {"id", "user_id", "model", "voice", "message_count",
                            "created_at"} : new[k] = old[k]
              /\ \A other \in DOMAIN sessions \ {id} :
                     sessions'[other] = sessions[other]
              /\ transcripts' = transcripts]_vars

(* C17 witness: the owner set only the title of a session whose summary    *)
(* was stored a second earlier: the summary and its timestamp stayed,      *)
(* updated_at moved on                                                     *)
C17_Witness ==
    /\ call.op = "update_session" /\ ret # None
    /\ call.form = <<Some("t"), None, None>>
    /\ ret[1].title = Some("t")
    /\ ret[1].summary = Some("sum")
    /\ ret[1].last_summary_at # None
    /\ ret[1].updated_at > ret[1].last_summary_at[1]

(* C15: an update of the configuration whose voice is not in the list of   *)
(* supported voices is answered with a client error and leaves the stored  *)
(* API keys, live-enabled flag and voice as they were; the three values    *)
(* change only when the voice is valid, and then to the values supplied.   *)
C15_ValidationBeforeSideEffect ==
    [][call'.op = "update_gemini_config" =>
          LET form_data == call'.form_data
              valid == \E i \in DOMAIN GEMINI_LIVE_VOICES :
                           GEMINI_LIVE_VOICES[i] = form_data.live_voice
          IN  /\ ~valid => /\ ret'.status \in 400..499
                           /\ gemini_config' = gemini_config
              /\ valid => /\ ret'.status = 200
                          /\ gemini_config' = <<form_data.api_keys,
                                                form_data.live_enabled,
                                                form_data.live_voice>>]_vars

(* C15 witness: an update with new keys, a new flag and an unsupported     *)
(* voice was refused and the stored values are not the ones it carried     *)
C15_Witness ==
    /\ call.op = "update_gemini_config"
    /\ ret.status = 400
    /\ call.form_data.live_voice = "voice-x"
    /\ call.form_data.api_keys # GEMINI_API_KEYS
    /\ call.form_data.live_enabled # GEMINI_LIVE_ENABLED
====
